---- MODULE Spec2Model ----
(***************************************************************************)
(* Model of the ActivityAnalyzer component (src/pages/ActivityAnalyzer.tsx, *)
(* the version that keeps the selected file in fileRef): the parse /        *)
(* filter / aggregate / recommend pipeline and the two handlers that drive  *)
(* it, handleFileChange and the asynchronous handleAnalyze.                 *)
(*                                                                          *)
(* The textarea's content (the state xmlText) is abstracted to a single     *)
(* value: the textarea's onChange and the f.text().then(setXmlText) of      *)
(* handleFileChange write it, and nothing but the textarea reads it.  Under *)
(* that abstraction both writes leave the state unchanged, so neither they  *)
(* nor the outstanding text() promise appear below.                         *)
(***************************************************************************)
EXTENDS Integers, Sequences, FiniteSets, TLC

VARIABLES
  fileRef,    \* fileRef.current: index of the selected File, or NoFile
  startDate,  \* state startDate (a string, '' when unset)
  endDate,    \* state endDate
  data,       \* state data: the stored record sequence
  stats,      \* state stats: NullStats or a Stats record
  pending,    \* handleAnalyze invocations suspended at their await
  outcome,    \* what the latest finished handleAnalyze invocation did
  statsSrc,   \* the file whose contents the stored stats were computed from
  arg,        \* input of the pure function under check (function specs)
  res         \* its result

vars == <<fileRef, startDate, endDate, data, stats, pending, outcome,
          statsSrc, arg, res>>

appVars == <<fileRef, startDate, endDate, data, stats, pending, outcome,
             statsSrc>>

(***************************************************************************)
(* JavaScript numbers.  A number is NaN, -Infinity, +Infinity or the exact  *)
(* rational n/d in lowest terms (d > 0).  Every value the pipeline handles  *)
(* is a small integer or a quotient of two of them, and the two literals    *)
(* compared against (0.8 and 0.3) are the doubles nearest 4/5 and 3/10; a   *)
(* correctly rounded quotient hit/total of integers below 2^50 compares to  *)
(* them exactly as the rational does, so rationals stand for doubles here.  *)
(***************************************************************************)
RECURSIVE Gcd(_, _)
Gcd(a, b) == IF b = 0 THEN a ELSE Gcd(b, a % b)

Rat(n, d) == [k |-> "num", n |-> n \div Gcd(n, d), d |-> d \div Gcd(n, d)]
Num(v) == [k |-> "num", n |-> v, d |-> 1]
NaN == [k |-> "nan", n |-> 0, d |-> 1]
NegInf == [k |-> "-inf", n |-> 0, d |-> 1]
PosInf == [k |-> "+inf", n |-> 0, d |-> 1]

\* a >= b and a <= b of JavaScript: false as soon as one side is NaN
JsGe(a, b) ==
  /\ a.k # "nan" /\ b.k # "nan"
  /\ \/ a.k = "+inf"
     \/ b.k = "-inf"
     \/ a.k = "num" /\ b.k = "num" /\ a.n * b.d >= b.n * a.d
JsLe(a, b) == JsGe(b, a)

\* a + b on finite numbers and NaN
JsAdd(a, b) ==
  IF a.k = "nan" \/ b.k = "nan" THEN NaN
  ELSE Rat(a.n * b.d + b.n * a.d, a.d * b.d)

\* a / n for a count n >= 0
JsDiv(a, n) ==
  IF a.k = "nan" THEN NaN
  ELSE IF n = 0 THEN (IF a.n = 0 THEN NaN ELSE PosInf)
  ELSE Rat(a.n, a.d * n)

\* Math.max(a, b): NaN if either is NaN
JsMax2(a, b) ==
  IF a.k = "nan" \/ b.k = "nan" THEN NaN
  ELSE IF JsGe(a, b) THEN a ELSE b

\* Math.max(...xs): -Infinity for no arguments
RECURSIVE MathMax(_)
MathMax(xs) ==
  IF xs = <<>> THEN NegInf ELSE JsMax2(Head(xs), MathMax(Tail(xs)))

(***************************************************************************)
(* Strings are sequences of one-character strings.  Null is the value       *)
(* getAttribute returns for an absent attribute.                            *)
(***************************************************************************)
Null == <<"#null">>
EmptyStr == <<>>

Digits == {"0", "1", "2", "3", "4", "5", "6", "7", "8", "9"}

DigitVal(c) ==
  CASE c = "0" -> 0 [] c = "1" -> 1 [] c = "2" -> 2 [] c = "3" -> 3
    [] c = "4" -> 4 [] c = "5" -> 5 [] c = "6" -> 6 [] c = "7" -> 7
    [] c = "8" -> 8 [] c = "9" -> 9

\* the length of the longest prefix of s made of digits
RECURSIVE DigitPrefixLen(_)
DigitPrefixLen(s) ==
  IF s = <<>> \/ Head(s) \notin Digits THEN 0
  ELSE 1 + DigitPrefixLen(Tail(s))

\* the value of a string of digits
RECURSIVE DigitsVal(_)
DigitsVal(s) ==
  IF s = <<>> THEN 0
  ELSE 10 * DigitsVal(SubSeq(s, 1, Len(s) - 1)) + DigitVal(s[Len(s)])

\* parseFloat(s) on strings of digits and letters: the number spelt by the
\* longest leading run of digits, NaN when the string does not start with one
parseFloat(s) ==
  IF DigitPrefixLen(s) = 0 THEN NaN
  ELSE Num(DigitsVal(SubSeq(s, 1, DigitPrefixLen(s))))

\* a || b on strings: b when a is null or the empty string
OrElse(a, b) == IF a = Null \/ a = EmptyStr THEN b ELSE a

(***************************************************************************)
(* new Date(s).  A string of the form YYYY-MM-DD naming a day of the        *)
(* calendar is UTC midnight of that day, counted here in days; the empty    *)
(* string and every other string of the model are an Invalid Date, whose    *)
(* time value is NaN.                                                       *)
(***************************************************************************)
IsLeap(y) == (y % 4 = 0 /\ y % 100 # 0) \/ y % 400 = 0

DaysInMonth(y, m) ==
  CASE m \in {1, 3, 5, 7, 8, 10, 12} -> 31
    [] m \in {4, 6, 9, 11} -> 30
    [] m = 2 -> IF IsLeap(y) THEN 29 ELSE 28

RECURSIVE DaysBeforeMonth(_, _)
DaysBeforeMonth(y, m) ==
  IF m = 1 THEN 0 ELSE DaysBeforeMonth(y, m - 1) + DaysInMonth(y, m - 1)

DaysBeforeYear(y) ==
  365 * (y - 1) + ((y - 1) \div 4) - ((y - 1) \div 100) + ((y - 1) \div 400)

IsIsoShape(s) ==
  /\ Len(s) = 10
  /\ s[5] = "-" /\ s[8] = "-"
  /\ \A i \in {1, 2, 3, 4, 6, 7, 9, 10} : s[i] \in Digits

IsoYear(s) == DigitsVal(SubSeq(s, 1, 4))
IsoMonth(s) == DigitsVal(SubSeq(s, 6, 7))
IsoDay(s) == DigitsVal(SubSeq(s, 9, 10))

IsCalendarDate(s) ==
  /\ IsIsoShape(s)
  /\ IsoYear(s) >= 1
  /\ IsoMonth(s) \in 1..12
  /\ IsoDay(s) >= 1 /\ IsoDay(s) <= DaysInMonth(IsoYear(s), IsoMonth(s))

newDate(s) ==
  IF IsCalendarDate(s)
  THEN Num(DaysBeforeYear(IsoYear(s)) + DaysBeforeMonth(IsoYear(s), IsoMonth(s))
           + IsoDay(s))
  ELSE NaN

\* the text "2024-MM-DD" from the four digits of MM and DD
Iso2024(m1, m2, d1, d2) == <<"2", "0", "2", "4", "-", m1, m2, "-", d1, d2>>

(***************************************************************************)
(* Raw text is a sequence of chunks.  A chunk is a piece of the text at     *)
(* byte offset pos: kind "summary" is a self-closing                        *)
(* <ActivitySummary .../> tag, kind "open" is an <ActivitySummary ...> tag  *)
(* without the closing slash (the pattern matches it, and it leaves the     *)
(* wrapped fragment ill-formed), kind "other" is any text the pattern does  *)
(* not match.  The seven attribute fields hold the attribute's text, or     *)
(* Null when the tag does not carry the attribute.                          *)
(***************************************************************************)
NumericAttrs ==
  {"activeEnergyBurned", "activeEnergyBurnedGoal", "appleExerciseTime",
   "appleExerciseTimeGoal", "appleStandHours", "appleStandHoursGoal"}

Chunk(pos, kind, date, cal, calGoal, ex, exGoal, st, stGoal) ==
  [pos |-> pos, kind |-> kind, dateComponents |-> date,
   activeEnergyBurned |-> cal, activeEnergyBurnedGoal |-> calGoal,
   appleExerciseTime |-> ex, appleExerciseTimeGoal |-> exGoal,
   appleStandHours |-> st, appleStandHoursGoal |-> stGoal]

\* text.match(/<ActivitySummary\b[^>]*\/?>/g) joined: the matched tags, in
\* order; the empty fragment when nothing matches
MatchesPattern(c) == c.kind \in {"summary", "open"}

extractActivityXml(text) == SelectSeq(text, MatchesPattern)

\* e.getAttribute(name)
getAttribute(e, name) == e[name]

\* one element mapped to an ActivityData record
ToActivityData(e) ==
  [date |-> OrElse(getAttribute(e, "dateComponents"), EmptyStr),
   calories |-> parseFloat(OrElse(getAttribute(e, "activeEnergyBurned"), <<"0">>)),
   caloriesGoal |->
     parseFloat(OrElse(getAttribute(e, "activeEnergyBurnedGoal"), <<"0">>)),
   exercise |-> parseFloat(OrElse(getAttribute(e, "appleExerciseTime"), <<"0">>)),
   exerciseGoal |->
     parseFloat(OrElse(getAttribute(e, "appleExerciseTimeGoal"), <<"0">>)),
   stand |-> parseFloat(OrElse(getAttribute(e, "appleStandHours"), <<"0">>)),
   standGoal |->
     parseFloat(OrElse(getAttribute(e, "appleStandHoursGoal"), <<"0">>))]

WellFormed(fragment) == \A i \in 1..Len(fragment) : fragment[i].kind = "summary"

FirstIllFormed(fragment) ==
  CHOOSE i \in 1..Len(fragment) :
    /\ fragment[i].kind # "summary"
    /\ \A j \in 1..(i - 1) : fragment[j].kind = "summary"

\* xml.getElementsByTagName('ActivitySummary') of the document DOMParser
\* returns for <root>fragment</root>.  parseFromString never throws.  For a
\* well-formed fragment the elements are its tags.  For an ill-formed one the
\* document holds a parsererror element and, depending on the engine, nothing
\* else or the part of the tree built before the parser gave up: every tag
\* before the first ill-formed one, and possibly tags from there on.
ParsedElements(fragment) ==
  IF WellFormed(fragment) THEN {fragment}
  ELSE {<<>>} \cup {SubSeq(fragment, 1, n) :
                      n \in (FirstIllFormed(fragment) - 1)..Len(fragment)}

\* the arrays parseXmlData(fragment) can return
parseXmlData(fragment) ==
  {[i \in 1..Len(es) |-> ToActivityData(es[i])] : es \in ParsedElements(fragment)}

\* the range test with an exclusive upper end
InRange_ExclusiveEnd(d, sd, ed) ==
  /\ JsGe(newDate(d.date), newDate(sd))
  /\ JsLe(newDate(d.date), newDate(ed))
  /\ newDate(d.date) # newDate(ed)

\* filterByDate(entries), with the startDate and endDate its closure holds
InRange(d, sd, ed) ==
  JsGe(newDate(d.date), newDate(sd)) /\ JsLe(newDate(d.date), newDate(ed))

filterByDate(entries, sd, ed) ==
  IF sd = EmptyStr \/ ed = EmptyStr THEN entries
  ELSE SelectSeq(entries, LAMBDA d : InRange(d, sd, ed))

\* entries.map(d => d[f])
Column(entries, f) == [i \in 1..Len(entries) |-> entries[i][f]]

\* xs.reduce((s, x) => s + x, 0)
RECURSIVE Sum(_)
Sum(xs) ==
  IF xs = <<>> THEN Num(0)
  ELSE JsAdd(Sum(SubSeq(xs, 1, Len(xs) - 1)), xs[Len(xs)])

\* the count taken against the first day's goal instead of each day's own
DaysHit_FirstGoal(entries, f, g) ==
  Len(SelectSeq(entries, LAMBDA d : JsGe(d[f], entries[1][g])))

\* entries.filter(d => d[f] >= d[g]).length
DaysHit(entries, f, g) ==
  Len(SelectSeq(entries, LAMBDA d : JsGe(d[f], d[g])))

computeStats(entries) ==
  [totalDays |-> Len(entries),
   maxCalories |-> MathMax(Column(entries, "calories")),
   maxExercise |-> MathMax(Column(entries, "exercise")),
   maxStand |-> MathMax(Column(entries, "stand")),
   avgCalories |-> JsDiv(Sum(Column(entries, "calories")), Len(entries)),
   avgExercise |-> JsDiv(Sum(Column(entries, "exercise")), Len(entries)),
   avgStand |-> JsDiv(Sum(Column(entries, "stand")), Len(entries)),
   daysHitCalories |-> DaysHit(entries, "calories", "caloriesGoal"),
   daysHitExercise |-> DaysHit(entries, "exercise", "exerciseGoal"),
   daysHitStand |-> DaysHit(entries, "stand", "standGoal")]

NullStats == [null |-> TRUE]

\* renderRecommendation with strict comparisons
renderRecommendation_Strict(hit, total, label) ==
  LET rate == JsDiv(Num(hit), total) IN
    IF JsGe(rate, Rat(8, 10)) /\ rate # Rat(8, 10)
    THEN [advice |-> "raise", label |-> label]
    ELSE IF JsLe(rate, Rat(3, 10)) /\ rate # Rat(3, 10)
    THEN [advice |-> "lower", label |-> label]
    ELSE [advice |-> "null", label |-> ""]

\* renderRecommendation(hit, total, label): which paragraph is rendered, or
\* null.  The text of the paragraph is left out.
NoAdvice == [advice |-> "null", label |-> ""]

renderRecommendation(hit, total, label) ==
  LET rate == JsDiv(Num(hit), total) IN
    IF JsGe(rate, Rat(8, 10)) THEN [advice |-> "raise", label |-> label]
    ELSE IF JsLe(rate, Rat(3, 10)) THEN [advice |-> "lower", label |-> label]
    ELSE NoAdvice

\* the three paragraphs of the recommendations block
Recommendations(s) ==
  [calories |-> renderRecommendation(s.daysHitCalories, s.totalDays, "kaloriju"),
   exercise |-> renderRecommendation(s.daysHitExercise, s.totalDays, "exercise"),
   stand |-> renderRecommendation(s.daysHitStand, s.totalDays, "standing hours")]

\* the results cards are rendered
ResultsShown == stats # NullStats /\ Len(data) > 0

(***************************************************************************)
(* The files the user can select.  A file is its size in bytes and the      *)
(* chunks of its text.                                                      *)
(***************************************************************************)
D0101 == Iso2024("0", "1", "0", "1")
D0115 == Iso2024("0", "1", "1", "5")
D0131 == Iso2024("0", "1", "3", "1")

Summary(pos, date, cal, calGoal) ==
  Chunk(pos, "summary", date, cal, calGoal,
        <<"3", "0">>, <<"3", "0">>, <<"1", "0">>, <<"1", "2">>)

OpenTag(pos, date, cal, calGoal) ==
  Chunk(pos, "open", date, cal, calGoal,
        <<"3", "0">>, <<"3", "0">>, <<"1", "0">>, <<"1", "2">>)

OtherText(pos) ==
  Chunk(pos, "other", Null, Null, Null, Null, Null, Null, Null)

Files ==
  << \* 1: an empty file
     [size |-> 0, chunks |-> <<>>],
     \* 2: a small export with two days
     [size |-> 400,
      chunks |-> <<OtherText(0),
                   Summary(100, D0101, <<"5", "0", "0">>, <<"4", "0", "0">>),
                   Summary(250, D0115, <<"2", "0", "0">>, <<"4", "0", "0">>)>>],
     \* 3: a day followed by a tag that is not closed
     [size |-> 300,
      chunks |-> <<Summary(0, D0101, <<"5", "0", "0">>, <<"4", "0", "0">>),
                   OpenTag(150, D0115, <<"9", "0", "0">>, <<"4", "0", "0">>)>>],
     \* 4: an export above the threshold; only its last day is in the tail
     [size |-> 12000000,
      chunks |-> <<Summary(1000, D0101, <<"1", "0", "0">>, <<"4", "0", "0">>),
                   Summary(11999000, D0131, <<"6", "0", "0">>, <<"4", "0", "0">>)>>] >>

NoFile == 0
FileIds == 1..Len(Files)

\* the dates the two date inputs can be set to ('' clears the input)
PickerDates == {EmptyStr, D0115}

\* how many handleAnalyze invocations may be suspended at once
MaxPending == 1

Threshold == 10000000
TailSize == 5000000

\* the window taken from the threshold on, not above it
SliceStart_AtThreshold(size) ==
  IF size >= Threshold
  THEN (IF size > TailSize THEN size - TailSize ELSE 0)
  ELSE 0

\* the offset the read starts at: file.slice(start) above the threshold,
\* the whole file otherwise
SliceStart(size) ==
  IF size > Threshold
  THEN (IF size > TailSize THEN size - TailSize ELSE 0)
  ELSE 0

\* the text of bytes from..size of a file: the chunks that start in it (a
\* tag cut by the start of the window has lost its "<ActivitySummary")
TextFrom(f, from) == SelectSeq(Files[f].chunks, LAMBDA c : c.pos >= from)

Idle ==
  [op |-> "idle", alert |-> "none", file |-> NoFile, tags |-> 0,
   illFormed |-> FALSE, ranged |-> FALSE, parsed |-> 0, filtered |-> 0,
   aggregated |-> FALSE, stored |-> FALSE]

Init ==
  /\ fileRef = NoFile
  /\ startDate = EmptyStr
  /\ endDate = EmptyStr
  /\ data = <<>>
  /\ stats = NullStats
  /\ pending = <<>>
  /\ outcome = Idle
  /\ statsSrc = NoFile
  /\ arg = <<>>
  /\ res = <<>>

\* handleFileChange: f is e.target.files?.[0], NoFile when the dialog was
\* cancelled.  (Its f.text().then(setXmlText) writes only xmlText.)
HandleFileChange(f) ==
  /\ fileRef' = f
  /\ stats' = NullStats
  /\ statsSrc' = NoFile
  /\ UNCHANGED <<startDate, endDate, data, pending, outcome, arg, res>>

\* the two date inputs' onChange
SetStartDate(d) ==
  /\ startDate' = d
  /\ UNCHANGED <<fileRef, endDate, data, stats, pending,
                 outcome, statsSrc, arg, res>>

SetEndDate(d) ==
  /\ endDate' = d
  /\ UNCHANGED <<fileRef, startDate, data, stats, pending,
                 outcome, statsSrc, arg, res>>

\* handleAnalyze whose guard alerts and does not return: reading file.size
\* of null throws inside the try, and the catch alerts again
HandleAnalyze_NoReturn ==
  \/ /\ fileRef = NoFile
     /\ outcome' = [Idle EXCEPT !.op = "failed", !.alert = "error"]
     /\ UNCHANGED <<fileRef, startDate, endDate, data, stats, pending,
                    statsSrc, arg, res>>
  \/ /\ fileRef # NoFile
     /\ Len(pending) < MaxPending
     /\ pending' = Append(pending,
                          [file |-> fileRef,
                           from |-> SliceStart(Files[fileRef].size),
                           startDate |-> startDate, endDate |-> endDate])
     /\ UNCHANGED <<fileRef, startDate, endDate, data, stats, outcome,
                    statsSrc, arg, res>>

\* handleAnalyze up to its await.  Without a file: the alert, and return.
\* With one: the read of the window is started, and the invocation is
\* suspended holding the file and the startDate and endDate of its closure.
HandleAnalyze ==
  \/ /\ fileRef = NoFile
     /\ outcome' = [Idle EXCEPT !.op = "refused", !.alert = "noFile"]
     /\ UNCHANGED <<fileRef, startDate, endDate, data,
                    stats, pending, statsSrc, arg, res>>
  \/ /\ fileRef # NoFile
     /\ Len(pending) < MaxPending
     /\ pending' = Append(pending,
                          [file |-> fileRef,
                           from |-> SliceStart(Files[fileRef].size),
                           startDate |-> startDate, endDate |-> endDate])
     /\ UNCHANGED <<fileRef, startDate, endDate, data,
                    stats, outcome, statsSrc, arg, res>>

RemoveAt(s, i) == SubSeq(s, 1, i - 1) \o SubSeq(s, i + 1, Len(s))

\* the resumed handleAnalyze aggregating the parsed records instead of the
\* filtered ones
AnalyzeResume_StatsOfParsed(i) ==
  /\ i \in 1..Len(pending)
  /\ LET p == pending[i]
         xmlContent == TextFrom(p.file, p.from)
         fragment == extractActivityXml(xmlContent)
     IN \E parsed \in parseXmlData(fragment) :
          LET filtered == filterByDate(parsed, p.startDate, p.endDate) IN
            /\ data' = filtered
            /\ stats' = computeStats(parsed)
            /\ statsSrc' = p.file
            /\ outcome' =
                 [op |-> "completed", alert |-> "none", file |-> p.file,
                  tags |-> Len(fragment), illFormed |-> ~WellFormed(fragment),
                  ranged |-> (p.startDate # EmptyStr /\ p.endDate # EmptyStr),
                  parsed |-> Len(parsed), filtered |-> Len(filtered),
                  aggregated |-> TRUE, stored |-> TRUE]
  /\ pending' = RemoveAt(pending, i)
  /\ UNCHANGED <<fileRef, startDate, endDate, arg, res>>

\* handleAnalyze from its await on, the read having succeeded: extract,
\* parse, filter, setData, setStats(computeStats(filtered))
AnalyzeResume(i) ==
  /\ i \in 1..Len(pending)
  /\ LET p == pending[i]
         xmlContent == TextFrom(p.file, p.from)
         fragment == extractActivityXml(xmlContent)
     IN \E parsed \in parseXmlData(fragment) :
          LET filtered == filterByDate(parsed, p.startDate, p.endDate) IN
            /\ data' = filtered
            /\ stats' = computeStats(filtered)
            /\ statsSrc' = p.file
            /\ outcome' =
                 [op |-> "completed", alert |-> "none", file |-> p.file,
                  tags |-> Len(fragment), illFormed |-> ~WellFormed(fragment),
                  ranged |-> (p.startDate # EmptyStr /\ p.endDate # EmptyStr),
                  parsed |-> Len(parsed), filtered |-> Len(filtered),
                  aggregated |-> TRUE, stored |-> TRUE]
  /\ pending' = RemoveAt(pending, i)
  /\ UNCHANGED <<fileRef, startDate, endDate, arg, res>>

\* handleAnalyze from its await on, the read having been rejected: the catch
AnalyzeReadFails(i) ==
  /\ i \in 1..Len(pending)
  /\ outcome' = [Idle EXCEPT !.op = "failed", !.alert = "error",
                             !.file = pending[i].file]
  /\ pending' = RemoveAt(pending, i)
  /\ UNCHANGED <<fileRef, startDate, endDate, data, stats,
                 statsSrc, arg, res>>

Next ==
  \/ \E f \in FileIds \cup {NoFile} : HandleFileChange(f)
  \/ \E d \in PickerDates : SetStartDate(d)
  \/ \E d \in PickerDates : SetEndDate(d)
  \/ HandleAnalyze
  \/ \E i \in 1..MaxPending : AnalyzeResume(i)
  \/ \E i \in 1..MaxPending : AnalyzeReadFails(i)

Spec == Init /\ [][Next]_vars

(***************************************************************************)
(* Specifications of the pipeline's functions taken alone: Init draws the   *)
(* input, the one action applies the function.  The component stays idle.   *)
(***************************************************************************)
AppIdle ==
  /\ fileRef = NoFile
  /\ startDate = EmptyStr
  /\ endDate = EmptyStr
  /\ data = <<>>
  /\ stats = NullStats
  /\ pending = <<>>
  /\ outcome = Idle
  /\ statsSrc = NoFile

SeqsUpTo(S, n) == UNION {[1..k -> S] : k \in 0..n}

\* ---- filterByDate ----
MaxFilterLen == 3

Garbage == <<"x">>

FilterDates == {EmptyStr, Garbage, D0101, D0115, D0131}

DatedRecord(date, cal) ==
  [date |-> date, calories |-> Num(cal), caloriesGoal |-> Num(4),
   exercise |-> Num(30), exerciseGoal |-> Num(30),
   stand |-> Num(10), standGoal |-> Num(12)]

FilterRecords == {DatedRecord(dt, c) : dt \in FilterDates, c \in {1, 2}}

RangeDates == {EmptyStr, D0101, D0115, D0131}

InitFilter ==
  /\ AppIdle
  /\ arg \in [entries : SeqsUpTo(FilterRecords, MaxFilterLen),
              sd : RangeDates, ed : RangeDates]
  /\ res = <<>>

ApplyFilter ==
  /\ res = <<>>
  /\ res' = <<filterByDate(arg.entries, arg.sd, arg.ed)>>
  /\ UNCHANGED <<appVars, arg>>

SpecFilter == InitFilter /\ [][ApplyFilter]_vars

\* ---- extractActivityXml and parseXmlData ----
MaxTextLen == 2

AttrTexts == {Null, EmptyStr, <<"7">>, <<"x">>, <<"1", "2", "x">>}

\* a self-closing tag whose attribute a has the text v (or is absent)
TagWith(a, v) ==
  [Summary(0, D0101, <<"5">>, <<"4">>) EXCEPT ![a] = v]

TextChunks ==
  {TagWith(a, v) : a \in NumericAttrs, v \in AttrTexts}
    \cup {Summary(0, Null, <<"5">>, <<"4">>),
          OpenTag(0, D0115, <<"5">>, <<"4">>),
          OtherText(0)}

InitParse ==
  /\ AppIdle
  /\ arg \in SeqsUpTo(TextChunks, MaxTextLen)
  /\ res = <<>>

ApplyParse ==
  /\ res = <<>>
  /\ \E parsed \in parseXmlData(extractActivityXml(arg)) : res' = <<parsed>>
  /\ UNCHANGED <<appVars, arg>>

SpecParse == InitParse /\ [][ApplyParse]_vars

\* ---- computeStats ----
MaxStatsLen == 3

\* (achieved, goal) of one dimension of one day
CaloriesPairs ==
  {<<Num(5), Num(4)>>, <<Num(4), Num(4)>>, <<Num(2), Num(4)>>,
   <<Num(5), Num(6)>>, <<NaN, Num(4)>>}
ExercisePairs == {<<Num(30), Num(30)>>, <<Num(10), Num(30)>>}
StandPairs == {<<Num(10), Num(12)>>, <<Num(12), Num(12)>>}

StatsRecords ==
  {[date |-> D0101, calories |-> c[1], caloriesGoal |-> c[2],
    exercise |-> e[1], exerciseGoal |-> e[2],
    stand |-> s[1], standGoal |-> s[2]] :
     c \in CaloriesPairs, e \in ExercisePairs, s \in StandPairs}

InitStats ==
  /\ AppIdle
  /\ arg \in SeqsUpTo(StatsRecords, MaxStatsLen)
  /\ res = <<>>

ApplyStats ==
  /\ res = <<>>
  /\ res' = <<computeStats(arg)>>
  /\ UNCHANGED <<appVars, arg>>

SpecStats == InitStats /\ [][ApplyStats]_vars

\* ---- renderRecommendation ----
MaxTotal == 10

InitRecommend ==
  /\ AppIdle
  /\ \E t \in 0..MaxTotal :
       arg \in [totalDays : {t}, daysHitCalories : 0..t,
                daysHitExercise : 0..t, daysHitStand : 0..t]
  /\ res = <<>>

ApplyRecommend ==
  /\ res = <<>>
  /\ res' = <<Recommendations(arg)>>
  /\ UNCHANGED <<appVars, arg>>

SpecRecommend == InitRecommend /\ [][ApplyRecommend]_vars

\* ---- the window handleAnalyze reads ----
MaxMegabytes == 20

FileSizes ==
  {s \in {m * 1000000 + d : m \in 0..MaxMegabytes, d \in {-1, 0, 1}} : s >= 0}

InitRead ==
  /\ AppIdle
  /\ arg \in FileSizes
  /\ res = <<>>

\* file.slice(start).text() or file.text(): the bytes from..to are read
ApplyRead ==
  /\ res = <<>>
  /\ res' = <<[from |-> SliceStart(arg), to |-> arg]>>
  /\ UNCHANGED <<appVars, arg>>

SpecRead == InitRead /\ [][ApplyRead]_vars

(***************************************************************************)
(* Properties of the analysis invocation (specification Spec).              *)
(***************************************************************************)

\* the latest finished invocation ran the pipeline to its end
Completed == outcome.op = "completed"

\* the latest finished invocation produced or stored a Statistics value
ProducedStats == outcome.aggregated \/ outcome.stored

\* C1: when the text held at least one record tag and the active date range
\* removed every record, the invocation reports an empty-aggregation-set
\* error (not the no-records one), the aggregator is not invoked and no
\* Statistics value is produced or stored.
C1_EmptyRangeIsReported ==
  (/\ Completed
   /\ outcome.tags >= 1
   /\ ~outcome.illFormed
   /\ outcome.ranged
   /\ outcome.parsed >= 1
   /\ outcome.filtered = 0)
    => /\ outcome.alert = "emptyAggregationSet"
       /\ ~ProducedStats

\* C2: when extraction finds no record tag (the empty text included), the
\* invocation reports a no-records-found error and no Statistics value is
\* produced or stored.
C2_NoRecordsIsReported ==
  (Completed /\ outcome.tags = 0)
    => /\ outcome.alert = "noRecordsFound"
       /\ ~ProducedStats

\* C3: when the wrapped fragment does not parse as a document, the invocation
\* ends in an error reported to the user, with no records and no Statistics.
C3_IllFormedIsFatal ==
  outcome.illFormed
    => /\ outcome.alert = "error"
       /\ outcome.parsed = 0
       /\ ~ProducedStats

\* C4: an analysis requested while no file is selected is reported to the
\* user and computes nothing: no read is started, no pipeline step runs, and
\* data and stats are left as they were.
C4_NoFileNoComputation ==
  [][(HandleAnalyze /\ fileRef = NoFile)
       => /\ outcome'.op = "refused"
          /\ outcome'.alert = "noFile"
          /\ ~outcome'.aggregated /\ ~outcome'.stored
          /\ outcome'.tags = 0 /\ outcome'.parsed = 0 /\ outcome'.filtered = 0
          /\ UNCHANGED <<fileRef, startDate, endDate, data, stats, statsSrc,
                         pending>>]_vars

\* a request was refused while earlier results were stored
C4_Witness ==
  /\ outcome.op = "refused"
  /\ fileRef = NoFile
  /\ stats # NullStats
  /\ Len(data) > 0

\* C10: the stored Statistics were computed from the file that is selected
\* now.
C10_StatsOfSelectedFile ==
  (stats # NullStats /\ fileRef # NoFile) => statsSrc = fileRef

(***************************************************************************)
(* Properties of the pipeline's functions.                                  *)
(***************************************************************************)

\* the calendar date a YYYY-MM-DD string names, as <<year, month, day>>
Ymd(s) == <<IsoYear(s), IsoMonth(s), IsoDay(s)>>

\* a is the same day as b or an earlier one
NotAfter(a, b) ==
  \/ a[1] < b[1]
  \/ a[1] = b[1] /\ a[2] < b[2]
  \/ a[1] = b[1] /\ a[2] = b[2] /\ a[3] <= b[3]

\* the indices of the entries whose date is a calendar date within [sd, ed]
KeptIndices(entries, sd, ed) ==
  {i \in 1..Len(entries) :
     /\ IsCalendarDate(entries[i].date)
     /\ NotAfter(Ymd(sd), Ymd(entries[i].date))
     /\ NotAfter(Ymd(entries[i].date), Ymd(ed))}

\* the k-th smallest member of a set of indices
KthOf(S, k) == CHOOSE i \in S : Cardinality({j \in S : j <= i}) = k

\* C5: the filter returns its input unchanged when a boundary is empty; and
\* otherwise exactly the records, in source order, whose date is a calendar
\* date d with start <= d <= end, so that a record whose date does not parse
\* is dropped.  Filtering the result again by the same range changes nothing.
C5_FilterByDate ==
  res # <<>> =>
    LET out == res[1]
        kept == KeptIndices(arg.entries, arg.sd, arg.ed)
    IN /\ (arg.sd = EmptyStr \/ arg.ed = EmptyStr) => out = arg.entries
       /\ (arg.sd # EmptyStr /\ arg.ed # EmptyStr) =>
            /\ Len(out) = Cardinality(kept)
            /\ \A k \in 1..Len(out) : out[k] = arg.entries[KthOf(kept, k)]
            /\ \A k \in 1..Len(out) : IsCalendarDate(out[k].date)
       /\ filterByDate(out, arg.sd, arg.ed) = out

\* a range kept both of its boundary days and dropped an unparsable date and
\* a later day
C5_Witness ==
  /\ res # <<>>
  /\ arg.sd = D0101 /\ arg.ed = D0115
  /\ Len(arg.entries) = 3
  /\ arg.entries[1].date = D0115
  /\ arg.entries[2].date = Garbage
  /\ arg.entries[3].date = D0101
  /\ res[1] = <<arg.entries[1], arg.entries[3]>>

\* the text of an attribute starts with a number
StartsWithNumber(v) == v # Null /\ v # EmptyStr /\ Head(v) \in Digits

\* the record field an attribute is parsed into
FieldOf(a) ==
  CASE a = "activeEnergyBurned" -> "calories"
    [] a = "activeEnergyBurnedGoal" -> "caloriesGoal"
    [] a = "appleExerciseTime" -> "exercise"
    [] a = "appleExerciseTimeGoal" -> "exerciseGoal"
    [] a = "appleStandHours" -> "stand"
    [] a = "appleStandHoursGoal" -> "standGoal"

\* C6: for every record tag and each of the six numeric attributes, the field
\* is 0 when the attribute is absent or is not parsable as a number, and no
\* record carries NaN in a numeric field.
C6_UnparsableIsZero ==
  (res # <<>> /\ WellFormed(extractActivityXml(arg))) =>
    LET tags == extractActivityXml(arg)
        recs == res[1]
    IN /\ Len(recs) = Len(tags)
       /\ \A i \in 1..Len(recs) : \A a \in NumericAttrs :
            /\ ~StartsWithNumber(tags[i][a]) => recs[i][FieldOf(a)] = Num(0)
            /\ recs[i][FieldOf(a)].k # "nan"

\* the advisory for hit days out of total, the thresholds 0.8 = 4/5 and
\* 0.3 = 3/10 taken in integer arithmetic
Advised(hit, total) ==
  IF 5 * hit >= 4 * total THEN "raise"
  ELSE IF 10 * hit <= 3 * total THEN "lower"
  ELSE "null"

\* C7: for 0 <= hit <= total and total > 0, a dimension's advisory is to raise
\* the goal exactly when hit/total >= 0.8, to lower it exactly when
\* hit/total <= 0.3 and none otherwise, each dimension from its own count.
C7_Recommendation ==
  (res # <<>> /\ arg.totalDays > 0) =>
    /\ res[1].calories.advice = Advised(arg.daysHitCalories, arg.totalDays)
    /\ res[1].exercise.advice = Advised(arg.daysHitExercise, arg.totalDays)
    /\ res[1].stand.advice = Advised(arg.daysHitStand, arg.totalDays)

\* ratios of exactly 0.8, exactly 0.3 and 0.5 in the three dimensions
C7_Witness ==
  /\ res # <<>>
  /\ arg.totalDays = 10
  /\ arg.daysHitCalories = 8 /\ res[1].calories.advice = "raise"
  /\ arg.daysHitExercise = 3 /\ res[1].exercise.advice = "lower"
  /\ arg.daysHitStand = 5 /\ res[1].stand = NoAdvice

\* the days whose achieved value f reaches that day's own goal g
HitDays(entries, f, g) ==
  {i \in 1..Len(entries) :
     /\ entries[i][f].k = "num" /\ entries[i][g].k = "num"
     /\ entries[i][f].n * entries[i][g].d >= entries[i][g].n * entries[i][f].d}

\* C8: for a non-empty record sequence, each dimension's daysHit is the
\* number of records whose achieved value is >= that record's own goal, and
\* 0 <= daysHit <= totalDays = the number of records.
C8_DaysHit ==
  (res # <<>> /\ Len(arg) > 0) =>
    LET s == res[1] IN
      /\ s.totalDays = Len(arg)
      /\ s.daysHitCalories = Cardinality(HitDays(arg, "calories", "caloriesGoal"))
      /\ s.daysHitExercise = Cardinality(HitDays(arg, "exercise", "exerciseGoal"))
      /\ s.daysHitStand = Cardinality(HitDays(arg, "stand", "standGoal"))
      /\ \A h \in {s.daysHitCalories, s.daysHitExercise, s.daysHitStand} :
           0 <= h /\ h <= s.totalDays

\* two days with different calorie goals, the first one missed
C8_Witness ==
  /\ res # <<>>
  /\ Len(arg) = 2
  /\ arg[1].calories = Num(5) /\ arg[1].caloriesGoal = Num(6)
  /\ arg[2].calories = Num(5) /\ arg[2].caloriesGoal = Num(4)
  /\ res[1].daysHitCalories = 1
  /\ res[1].totalDays = 2

\* C9: a source of at most 10,000,000 bytes is read whole; of a larger one
\* the last 5,000,000 bytes are read; never more than 10,000,000 bytes, and
\* always up to the end of the source.
C9_ReadWindow ==
  res # <<>> =>
    /\ arg <= 10000000 => res[1].from = 0
    /\ arg > 10000000 => res[1].from = arg - 5000000
    /\ res[1].to = arg
    /\ res[1].to - res[1].from <= 10000000

\* a source one byte above the threshold was read from its tail
C9_Witness ==
  /\ res # <<>>
  /\ arg = 10000001
  /\ res[1] = [from |-> 5000001, to |-> 10000001]

(***************************************************************************)
(* Consistency of the stored results (specification Spec).                  *)
(***************************************************************************)

\* the stored stats are the aggregate of the stored records
StatsMatchData ==
  stats # NullStats =>
    /\ stats = computeStats(data)
    /\ stats.totalDays = Len(data)

====
